---------------------------- MODULE Spec2Model ----------------------------
(***************************************************************************)
(* A model of the benchener load engine (src/src/runner.rs, main.rs,       *)
(* report.rs, config.rs): the batch-issuing engine, the spawned request    *)
(* tasks, the background timer / duration watcher thread, the tokio        *)
(* Notify used as termination signal, the Mutex<Report> aggregator and the *)
(* Ctrl+C handler.                                                         *)
(***************************************************************************)
EXTENDS Integers, Sequences, FiniteSets, TLC

(* ------------------------------ bounds -------------------------------- *)
\* largest config.requests explored (config.concurrency ranges over 1..requests);
\* the endless loop of the Duration mode is stopped before it launches more than this many
MaxRequests == 3
\* start.elapsed() of the timer / watcher thread ranges over 0..MaxClock ticks
MaxClock == 2

\* config.duration, in ticks of the same clock
ConfigDuration == 1

\* ReportSpec: the longest vector of latencies drawn, and the largest latency
\* (latency.as_millis()) in it
MaxLatencies == 4
MaxLatency == 3

\* DataSpec: the larger config.requests; config.concurrency is one less, which
\* makes a full batch of concurrent requests and a remainder of one
MaxDataRequests == 3

TestTypes == {"RequestCount", "Duration", "Both"}

\* what the server and the transport may answer in the runs of Spec:
\* res.status().as_u16(), res.headers().get("server") ("none": no such header),
\* res.text().await?.len() in bytes, err.kind() of a failed get_async, and the
\* latency.as_millis() measured around get_async
ControlInputs ==
    [ statuses  |-> {200},
      headers   |-> {"none"},
      bodies    |-> {2048},
      kinds     |-> {"Timeout", "ConnectionFailed"},
      latencies |-> {7} ]

VARIABLES
    config,       \* Config: test_type, requests, concurrency, duration
    inputs,       \* the answers the server and the transport may give in this run
    report,       \* the Report behind Arc<Mutex<Report>>
    lock,         \* holder of the report mutex: 0 when free, the id of the task holding
                  \* it, or MainThread
    tasks,        \* one entry per tokio::spawn'ed send_request task: its position
                  \* ("abandoned": still suspended, and its batch lost a select!)
    epc,          \* position of the engine (Runner::run and the block_on body)
    batch_no,     \* full batches of the plan whose await / select has resolved
    handles,      \* the run_batch future being awaited: first task, count, idx, polled
    notified,     \* notify_waiters calls seen when the live Notified future was created
    notify_calls, \* number of notify_waiters() calls made on the Notify
    stop_flag,    \* the AtomicBool shared with the timer / watcher thread
    wpc,          \* position of the timer / watcher thread
    clock,        \* the last start.elapsed() the timer / watcher thread read, in ticks
    batches,      \* history: the sizes of the batches launched, in order
    signal_won,   \* history: a select! has resolved through notify.notified()
    join_failed,  \* history: a run_batch returned through a JoinError
    snapshot,     \* the reports print_report has read under the lock, in order
    printed,      \* what each print_report printed of the latencies: the
                  \* distribution and the histogram
    exited        \* std::process::exit(0) was called by the Ctrl+C handler

vars == << config, inputs, report, lock, tasks, epc, batch_no, handles, notified,
           notify_calls, stop_flag, wpc, clock, batches, signal_won,
           join_failed, snapshot, printed, exited >>

(* ------------------------------ Report -------------------------------- *)
ReportDefault ==
    [ server_software   |-> "",
      host              |-> "",
      port              |-> 0,
      completed_requests |-> 0,
      failed_requests   |-> 0,
      timeouts          |-> 0,
      total_html_read   |-> 0,
      non_2xx_responses |-> 0,
      concurrency       |-> 0,
      duration          |-> 0,
      latencies         |-> << >> ]

NoHandles == [first |-> 0, count |-> 0, idx |-> 0, polled |-> FALSE]

Init ==
    /\ config \in { [test_type |-> m, requests |-> n, concurrency |-> c,
                     duration |-> ConfigDuration] :
                       m \in TestTypes, n \in 1..MaxRequests, c \in 1..MaxRequests }
    /\ config.concurrency <= config.requests
    /\ inputs = ControlInputs
    /\ report = [ReportDefault EXCEPT !.concurrency = config.concurrency]
    /\ lock = 0
    /\ tasks = << >>
    /\ epc = "start"
    /\ batch_no = 0
    /\ handles = NoHandles
    /\ notified = -1
    /\ notify_calls = 0
    /\ stop_flag = FALSE
    /\ wpc = "none"
    /\ clock = 0
    /\ batches = << >>
    /\ signal_won = FALSE
    /\ join_failed = FALSE
    /\ snapshot = << >>
    /\ printed = << >>
    /\ exited = FALSE

(* --------------------------- derived values --------------------------- *)
\* runner.config.requests / runner.config.concurrency
TotalBatches(cfg) == cfg.requests \div cfg.concurrency

\* a plan that forgets the requests left over after the full batches
RemainderDropped(cfg) == 0

\* runner.config.requests % runner.config.concurrency
Remainder(cfg) == cfg.requests % cfg.concurrency

TaskIds == 1..Len(tasks)

\* the process is over once the handler has called exit, main has printed the
\* report or the error, or the engine has panicked
ProcessAlive == ~exited /\ epc \notin {"failed", "panicked", "reported"}

\* a spawned task whose future is still alive: it owns a clone of Arc<Runner>
\* and can still reach report.lock()
Live(t) == tasks[t] \in {"pending", "abandoned", "s_pushed"}

LiveTasks == {t \in TaskIds : Live(t)}

\* a task suspended at an .await (get_async, then text), not inside a poll
Pending(t) == tasks[t] \in {"pending", "abandoned"}

\* the JoinHandle has an output: the task returned or panicked
Finished(t) == tasks[t] \in {"ok", "err", "panicked"}

\* the task whose JoinHandle run_batch is awaiting
CurrentHandle == handles.first + handles.idx - 1

\* strong references to Arc<Runner> besides the engine's own
ArcClones == (IF wpc \in {"none", "done"} THEN 0 ELSE 1) + Cardinality(LiveTasks)

(* ---------------------- send_request on the Report --------------------- *)
\* a success arm that adds the latency of the request to the duration of the test
PushLatencyAddsDuration(r, latency, html_read) ==
    [r EXCEPT !.total_html_read = @ + html_read,
              !.latencies = Append(@, latency),
              !.duration = @ + latency]

\* a success arm that adds the bytes and forgets latencies.push
PushLatencyBytesOnly(r, latency, html_read) ==
    [r EXCEPT !.total_html_read = @ + html_read]

\* report.total_html_read += (html_read as f64) / 1024.0;
\* report.latencies.push(latency). total_html_read is held in units of 1/1024 KB:
\* a division by 1024.0 is exact in f64, and so are the sums of such quotients
PushLatency(r, latency, html_read) ==
    [r EXCEPT !.total_html_read = @ + html_read,
              !.latencies = Append(@, latency)]

\* a success arm that counts the request when the latency is pushed and again
\* when the status is looked at
CountCompletedTwice(r, status, header) ==
    [r EXCEPT !.completed_requests = @ + 2,
              !.non_2xx_responses = IF status \div 100 # 2 THEN @ + 1 ELSE @,
              !.server_software = IF @ = "" /\ header # "none" THEN header ELSE @]

\* a success arm that counts only client and server errors as non-2xx
CountCompletedErrorsOnly(r, status, header) ==
    [r EXCEPT !.completed_requests = @ + 1,
              !.non_2xx_responses = IF status \div 100 >= 4 THEN @ + 1 ELSE @,
              !.server_software = IF @ = "" /\ header # "none" THEN header ELSE @]

\* a success arm in which the last server header wins
CountCompletedLastHeaderWins(r, status, header) ==
    [r EXCEPT !.completed_requests = @ + 1,
              !.non_2xx_responses = IF status \div 100 # 2 THEN @ + 1 ELSE @,
              !.server_software = IF header # "none" THEN header ELSE @]

\* report.completed_requests += 1; the non-2xx count; the server software
CountCompleted(r, status, header) ==
    [r EXCEPT !.completed_requests = @ + 1,
              !.non_2xx_responses = IF status \div 100 # 2 THEN @ + 1 ELSE @,
              !.server_software = IF @ = "" /\ header # "none" THEN header ELSE @]

\* a failure arm that takes every failure for a timeout
RecordFailureAlwaysTimeout(r, kind) ==
    [r EXCEPT !.failed_requests = @ + 1,
              !.timeouts = @ + 1]

\* the Err(err) arm: failed_requests += 1, timeouts += 1 on ErrorKind::Timeout
RecordFailure(r, kind) ==
    [r EXCEPT !.failed_requests = @ + 1,
              !.timeouts = IF kind = "Timeout" THEN @ + 1 ELSE @]

\* what the engine, the watcher and the handler leave alone in a task step
TaskFrame ==
    UNCHANGED << config, inputs, epc, batch_no, handles, notified, notify_calls,
                 stop_flag, wpc, clock, batches, signal_won, join_failed, snapshot, printed,
                 exited >>

\* a failure arm that counts the failure and sends the request again
GetAsyncErrResends(t) ==
    /\ ProcessAlive
    /\ Pending(t)
    /\ lock = 0
    /\ \E kind \in inputs.kinds : report' = RecordFailure(report, kind)
    /\ UNCHANGED << lock, tasks >>
    /\ TaskFrame

\* client.get_async(url).await returns Err(err): the failure is counted under the lock
GetAsyncErr(t) ==
    /\ ProcessAlive
    /\ Pending(t)
    /\ lock = 0
    /\ \E kind \in inputs.kinds : report' = RecordFailure(report, kind)
    /\ tasks' = [tasks EXCEPT ![t] = "ok"]
    /\ UNCHANGED lock
    /\ TaskFrame

\* the spawned future panics: its JoinHandle yields a JoinError
TaskPanics(t) ==
    /\ ProcessAlive
    /\ Pending(t)
    /\ tasks' = [tasks EXCEPT ![t] = "panicked"]
    /\ UNCHANGED << report, lock >>
    /\ TaskFrame

\* get_async returned Ok(res) and res.text().await? fails: send_request
\* returns Err(isahc::Error) at once
ReadBodyErr(t) ==
    /\ ProcessAlive
    /\ Pending(t)
    /\ tasks' = [tasks EXCEPT ![t] = "err"]
    /\ UNCHANGED << report, lock >>
    /\ TaskFrame

\* a success arm that locks the report before it awaits the body
ReadBodyLocksFirst(t) ==
    /\ ProcessAlive
    /\ Pending(t)
    /\ lock = 0
    /\ lock' = t
    /\ UNCHANGED << report, tasks >>
    /\ TaskFrame

\* get_async returned Ok(res) and res.text().await? succeeds: take the lock,
\* add the bytes, push the latency
ReadBodyOk(t) ==
    /\ ProcessAlive
    /\ Pending(t)
    /\ lock = 0
    /\ lock' = t
    /\ \E latency \in inputs.latencies, html_read \in inputs.bodies :
          report' = PushLatency(report, latency, html_read)
    /\ tasks' = [tasks EXCEPT ![t] = "s_pushed"]
    /\ TaskFrame

\* a success arm whose guard outlives the task: the request is counted and the
\* mutex stays locked
CountRequestKeepsLock(t) ==
    /\ ProcessAlive
    /\ tasks[t] = "s_pushed"
    /\ lock = t
    /\ \E status \in inputs.statuses, header \in inputs.headers :
          report' = CountCompleted(report, status, header)
    /\ tasks' = [tasks EXCEPT ![t] = "ok"]
    /\ UNCHANGED lock
    /\ TaskFrame

\* still under the lock: count the request, then drop the guard and return Ok(())
CountRequest(t) ==
    /\ ProcessAlive
    /\ tasks[t] = "s_pushed"
    /\ lock = t
    /\ \E status \in inputs.statuses, header \in inputs.headers :
          report' = CountCompleted(report, status, header)
    /\ lock' = 0
    /\ tasks' = [tasks EXCEPT ![t] = "ok"]
    /\ TaskFrame

(* ------------------------------ run_batch ------------------------------ *)
\* first poll of run_batch: tokio::spawn `count` send_request tasks
Launch(count) ==
    /\ tasks' = tasks \o [i \in 1..count |-> "pending"]
    /\ handles' = [first |-> Len(tasks) + 1, count |-> count, idx |-> 1, polled |-> TRUE]
    /\ batches' = Append(batches, count)

\* a run_batch future created by select! and not polled yet
Unpolled(count) == [first |-> 0, count |-> count, idx |-> 1, polled |-> FALSE]

\* handle.await?? yields Ok(()) and it was not the last handle
HandleOk == handles.polled /\ tasks[CurrentHandle] = "ok"

\* outcome of the run_batch future once it resolves
RunBatchResult ==
    IF tasks[CurrentHandle] = "panicked" THEN "JoinError"
    ELSE IF tasks[CurrentHandle] = "err" THEN "RequestError"
    ELSE "Ok"

\* the run_batch future is ready: every handle returned Ok, or one returned an error
RunBatchResolved ==
    /\ handles.polled
    /\ Finished(CurrentHandle)
    /\ (tasks[CurrentHandle] = "ok" => handles.idx = handles.count)

Awaiting == epc \in {"await_full", "await_rem"}

\* for handle in handles { handle.await??; }: go on to the next handle
JoinNext ==
    /\ ProcessAlive
    /\ Awaiting
    /\ HandleOk
    /\ handles.idx < handles.count
    /\ handles' = [handles EXCEPT !.idx = @ + 1]
    /\ UNCHANGED << config, inputs, report, lock, tasks, epc, batch_no, notified,
                    notify_calls, stop_flag, wpc, clock, batches, signal_won, join_failed,
                    snapshot, printed, exited >>

\* select! polls the run_batch branch for the first time
PollRunBatch ==
    /\ ProcessAlive
    /\ Awaiting
    /\ ~handles.polled
    /\ Launch(handles.count)
    /\ UNCHANGED << config, inputs, report, lock, epc, batch_no, notified,
                    notify_calls, stop_flag, wpc, clock, signal_won, join_failed,
                    snapshot, printed, exited >>

\* a Notified future that wakes whether or not notify_waiters() was called
NotifiedReadyUnraised == notified >= 0

\* the Notified future of the select! is ready
NotifiedReady == notified >= 0 /\ notify_calls > notified

\* the run_batch future is dropped by select!: its JoinHandles are dropped and
\* the tasks still suspended go on detached
Abandon ==
    [t \in TaskIds |->
        IF handles.polled /\ t >= handles.first /\ tasks[t] = "pending"
        THEN "abandoned" ELSE tasks[t]]

(* ------------------------------ Runner::run ---------------------------- *)
EngineFrame ==
    UNCHANGED << config, inputs, lock, clock, snapshot, printed, exited >>

\* the id of the main thread as holder of the report mutex
MainThread == 0 - 1

\* a run that spawns the timer thread before it looks at the target
RunSpawnsTimerFirst ==
    /\ ProcessAlive
    /\ epc = "start"
    /\ lock = 0
    /\ lock' = MainThread
    /\ report' = [report EXCEPT !.host = "host", !.port = 80]
    /\ epc' = "connect"
    /\ wpc' = "flag"
    /\ UNCHANGED << config, inputs, tasks, batch_no, handles, notified, notify_calls,
                    stop_flag, clock, batches, signal_won, join_failed,
                    snapshot, printed, exited >>

\* Runner::run calls is_url_reachable: the report is locked and host and port
\* are written; the guard lives until is_url_reachable returns
Run ==
    /\ ProcessAlive
    /\ epc = "start"
    /\ lock = 0
    /\ lock' = MainThread
    /\ report' = [report EXCEPT !.host = "host", !.port = 80]
    /\ epc' = "connect"
    /\ UNCHANGED << config, inputs, tasks, batch_no, handles, notified, notify_calls,
                    stop_flag, wpc, clock, batches, signal_won, join_failed,
                    snapshot, printed, exited >>

\* TcpStream::connect(address) returns, is_url_reachable drops the guard and
\* run goes on to the test of config.test_type or returns Err("Failed to resolve")
Connect ==
    /\ ProcessAlive
    /\ epc = "connect"
    /\ lock = MainThread
    /\ lock' = 0
    /\ \E reachable \in BOOLEAN :
          epc' = IF reachable THEN "reachable" ELSE "failed"
    /\ UNCHANGED << config, inputs, report, tasks, batch_no, handles, notified,
                    notify_calls, stop_flag, wpc, clock, batches, signal_won,
                    join_failed, snapshot, printed, exited >>

(* ------------------------- run_req_count_test -------------------------- *)
\* spawn_timer_thread, then enter runtime.block_on
RunReqCountTest ==
    /\ ProcessAlive
    /\ epc = "reachable"
    /\ config.test_type = "RequestCount"
    /\ wpc' = "flag"
    /\ epc' = "full"
    /\ UNCHANGED << report, tasks, batch_no, handles, notified, notify_calls,
                    stop_flag, batches, signal_won, join_failed >>
    /\ EngineFrame

\* for batch in 1..=total_batches: run_batch(concurrency).await is polled at once
CountFullBatch ==
    /\ ProcessAlive
    /\ epc = "full"
    /\ config.test_type = "RequestCount"
    /\ batch_no < TotalBatches(config)
    /\ Launch(config.concurrency)
    /\ epc' = "await_full"
    /\ UNCHANGED << report, batch_no, notified, notify_calls, stop_flag, wpc,
                    signal_won, join_failed >>
    /\ EngineFrame

\* let _ = run_batch(..).await: the result, Ok or Err, is dropped
CountBatchResolved ==
    /\ ProcessAlive
    /\ epc = "await_full"
    /\ config.test_type = "RequestCount"
    /\ RunBatchResolved
    /\ batch_no' = batch_no + 1
    /\ epc' = IF batch_no' < TotalBatches(config) THEN "full" ELSE "rem"
    /\ join_failed' = (join_failed \/ RunBatchResult = "JoinError")
    /\ handles' = NoHandles
    /\ UNCHANGED << report, tasks, notified, notify_calls, stop_flag, wpc, batches,
                    signal_won >>
    /\ EngineFrame

\* if remainder > 0 { run_batch(remainder).await }
CountRemainder ==
    /\ ProcessAlive
    /\ epc = "rem"
    /\ config.test_type = "RequestCount"
    /\ Remainder(config) > 0
    /\ Launch(Remainder(config))
    /\ epc' = "await_rem"
    /\ UNCHANGED << report, batch_no, notified, notify_calls, stop_flag, wpc,
                    signal_won, join_failed >>
    /\ EngineFrame

CountRemainderResolved ==
    /\ ProcessAlive
    /\ epc = "await_rem"
    /\ config.test_type = "RequestCount"
    /\ RunBatchResolved
    /\ epc' = "stop"
    /\ join_failed' = (join_failed \/ RunBatchResult = "JoinError")
    /\ handles' = NoHandles
    /\ UNCHANGED << report, tasks, batch_no, notified, notify_calls, stop_flag, wpc,
                    batches, signal_won >>
    /\ EngineFrame

\* remainder == 0: nothing more to run (RequestCount and Both)
NoRemainder ==
    /\ ProcessAlive
    /\ epc = "rem"
    /\ config.test_type \in {"RequestCount", "Both"}
    /\ Remainder(config) = 0
    /\ epc' = "stop"
    /\ UNCHANGED << report, tasks, batch_no, handles, notified, notify_calls,
                    stop_flag, wpc, batches, signal_won, join_failed >>
    /\ EngineFrame

\* stop_flag.store(true, Ordering::Relaxed)
StoreStopFlag ==
    /\ ProcessAlive
    /\ epc = "stop"
    /\ stop_flag' = TRUE
    /\ epc' = "sleep"
    /\ UNCHANGED << report, tasks, batch_no, handles, notified, notify_calls, wpc,
                    batches, signal_won, join_failed >>
    /\ EngineFrame

\* sleep(10ms).await is over and block_on returns; run_both_tests goes on to
\* drop(runtime), run_req_count_test to Arc::try_unwrap
SleepDone ==
    /\ ProcessAlive
    /\ epc = "sleep"
    /\ epc' = IF config.test_type = "Both" THEN "drop" ELSE "unwrap"
    /\ UNCHANGED << report, tasks, batch_no, handles, notified, notify_calls,
                    stop_flag, wpc, batches, signal_won, join_failed >>
    /\ EngineFrame

\* drop(runtime): the workers finish the poll they are in, then every task
\* still suspended at an .await is dropped
DropRuntime ==
    /\ ProcessAlive
    /\ epc = "drop"
    /\ \A t \in TaskIds : tasks[t] # "s_pushed"
    /\ tasks' = [t \in TaskIds |-> IF Pending(t) THEN "cancelled" ELSE tasks[t]]
    /\ epc' = "unwrap"
    /\ UNCHANGED << report, batch_no, handles, notified, notify_calls, stop_flag, wpc,
                    batches, signal_won, join_failed >>
    /\ EngineFrame

\* Arc::try_unwrap(runner): the Runner is returned when no clone is left,
\* panic!("Runner instance still has active references.") otherwise
TryUnwrap ==
    /\ ProcessAlive
    /\ epc = "unwrap"
    /\ epc' = IF ArcClones = 0 THEN "frozen" ELSE "panicked"
    /\ UNCHANGED << report, tasks, batch_no, handles, notified, notify_calls,
                    stop_flag, wpc, batches, signal_won, join_failed >>
    /\ EngineFrame

(* -------------------------- run_duration_test -------------------------- *)
\* spawn_duration_thread, then enter runtime.block_on
RunDurationTest ==
    /\ ProcessAlive
    /\ epc = "reachable"
    /\ config.test_type = "Duration"
    /\ wpc' = "check"
    /\ epc' = "full"
    /\ UNCHANGED << report, tasks, batch_no, handles, notified, notify_calls,
                    stop_flag, batches, signal_won, join_failed >>
    /\ EngineFrame

\* loop { select! { run_batch(concurrency), notify.notified() } }: both futures
\* are created; the Notified sees the notify_waiters calls made so far
DurationSelect ==
    /\ ProcessAlive
    /\ epc = "full"
    /\ config.test_type = "Duration"
    /\ Len(tasks) + config.concurrency <= MaxRequests
    /\ handles' = Unpolled(config.concurrency)
    /\ notified' = notify_calls
    /\ epc' = "await_full"
    /\ UNCHANGED << report, tasks, batch_no, notify_calls, stop_flag, wpc, batches,
                    signal_won, join_failed >>
    /\ EngineFrame

\* the run_batch branch wins: the Notified is dropped and the loop goes round
DurationBatchResolved ==
    /\ ProcessAlive
    /\ epc = "await_full"
    /\ config.test_type = "Duration"
    /\ RunBatchResolved
    /\ batch_no' = batch_no + 1
    /\ epc' = "full"
    /\ join_failed' = (join_failed \/ RunBatchResult = "JoinError")
    /\ handles' = NoHandles
    /\ notified' = -1
    /\ UNCHANGED << report, tasks, notify_calls, stop_flag, wpc, batches, signal_won >>
    /\ EngineFrame

\* the notified() branch wins: break, block_on returns, the JoinHandles are dropped
DurationNotified ==
    /\ ProcessAlive
    /\ epc = "await_full"
    /\ config.test_type = "Duration"
    /\ NotifiedReady
    /\ signal_won' = TRUE
    /\ tasks' = Abandon
    /\ epc' = "drop"
    /\ handles' = NoHandles
    /\ notified' = -1
    /\ UNCHANGED << report, batch_no, notify_calls, stop_flag, wpc, batches,
                    join_failed >>
    /\ EngineFrame

(* ---------------------------- run_both_tests --------------------------- *)
\* spawn_duration_thread_with_flag, then enter runtime.block_on
RunBothTests ==
    /\ ProcessAlive
    /\ epc = "reachable"
    /\ config.test_type = "Both"
    /\ wpc' = "check"
    /\ epc' = "full"
    /\ UNCHANGED << report, tasks, batch_no, handles, notified, notify_calls,
                    stop_flag, batches, signal_won, join_failed >>
    /\ EngineFrame

\* for _ in 0..total_batches { select! { run_batch(concurrency), notified() } }
BothSelect ==
    /\ ProcessAlive
    /\ epc = "full"
    /\ config.test_type = "Both"
    /\ batch_no < TotalBatches(config)
    /\ handles' = Unpolled(config.concurrency)
    /\ notified' = notify_calls
    /\ epc' = "await_full"
    /\ UNCHANGED << report, tasks, batch_no, notify_calls, stop_flag, wpc, batches,
                    signal_won, join_failed >>
    /\ EngineFrame

BothBatchResolved ==
    /\ ProcessAlive
    /\ epc = "await_full"
    /\ config.test_type = "Both"
    /\ RunBatchResolved
    /\ batch_no' = batch_no + 1
    /\ epc' = IF batch_no' < TotalBatches(config) THEN "full" ELSE "rem"
    /\ join_failed' = (join_failed \/ RunBatchResult = "JoinError")
    /\ handles' = NoHandles
    /\ notified' = -1
    /\ UNCHANGED << report, tasks, notify_calls, stop_flag, wpc, batches, signal_won >>
    /\ EngineFrame

\* where the engine goes when notified() wins the race of a full batch:
\* `break` leaves the for loop, and the remainder code follows the loop
AfterBreak == "rem"

\* _ = notify.notified() => { break; } in the loop of full batches
BothNotifiedBreak ==
    /\ ProcessAlive
    /\ epc = "await_full"
    /\ config.test_type = "Both"
    /\ NotifiedReady
    /\ signal_won' = TRUE
    /\ tasks' = Abandon
    /\ epc' = AfterBreak
    /\ handles' = NoHandles
    /\ notified' = -1
    /\ UNCHANGED << report, batch_no, notify_calls, stop_flag, wpc, batches,
                    join_failed >>
    /\ EngineFrame

\* if remainder > 0 { select! { run_batch(remainder), notified() } }
BothRemainderSelect ==
    /\ ProcessAlive
    /\ epc = "rem"
    /\ config.test_type = "Both"
    /\ Remainder(config) > 0
    /\ handles' = Unpolled(Remainder(config))
    /\ notified' = notify_calls
    /\ epc' = "await_rem"
    /\ UNCHANGED << report, tasks, batch_no, notify_calls, stop_flag, wpc, batches,
                    signal_won, join_failed >>
    /\ EngineFrame

BothRemainderResolved ==
    /\ ProcessAlive
    /\ epc = "await_rem"
    /\ config.test_type = "Both"
    /\ RunBatchResolved
    /\ epc' = "stop"
    /\ join_failed' = (join_failed \/ RunBatchResult = "JoinError")
    /\ handles' = NoHandles
    /\ notified' = -1
    /\ UNCHANGED << report, tasks, batch_no, notify_calls, stop_flag, wpc, batches,
                    signal_won >>
    /\ EngineFrame

\* _ = notify.notified() => { return; } in the remainder: the async block ends
\* without the stop_flag store and the sleep
BothNotifiedReturn ==
    /\ ProcessAlive
    /\ epc = "await_rem"
    /\ config.test_type = "Both"
    /\ NotifiedReady
    /\ signal_won' = TRUE
    /\ tasks' = Abandon
    /\ epc' = "drop"
    /\ handles' = NoHandles
    /\ notified' = -1
    /\ UNCHANGED << report, batch_no, notify_calls, stop_flag, wpc, batches,
                    join_failed >>
    /\ EngineFrame

(* -------------------- the timer / watcher std::thread ------------------- *)
WatcherFrame ==
    UNCHANGED << config, inputs, tasks, epc, batch_no, handles, notified, batches,
                 signal_won, join_failed, snapshot, printed, exited >>

\* a clock that may step back between two reads
ElapsedSteppingBack == 0..MaxClock

\* a read of start.elapsed(): the Instant is monotonic, so a read returns the
\* last value read or a later one
Elapsed == clock..MaxClock

\* a loop condition that ends the loop when the duration is just reached
BeforeDuration(now) == now < config.duration

\* start.elapsed() <= duration, the loop condition of both duration threads
WithinDuration(now) == now <= config.duration

\* runner.report.lock().unwrap().duration = start.elapsed()
UpdateElapsed(r, now) == [r EXCEPT !.duration = now]

\* a timer thread that raises a termination signal once the duration is over
TimerFlagRaisesSignal ==
    /\ ProcessAlive
    /\ config.test_type = "RequestCount"
    /\ wpc = "flag"
    /\ wpc' = IF stop_flag \/ clock > config.duration THEN "exit" ELSE "update"
    /\ notify_calls' = IF clock > config.duration THEN notify_calls + 1 ELSE notify_calls
    /\ UNCHANGED << report, lock, stop_flag, clock >>
    /\ WatcherFrame

\* spawn_timer_thread: if stop_flag.load() { return; }
TimerFlag ==
    /\ ProcessAlive
    /\ config.test_type = "RequestCount"
    /\ wpc = "flag"
    /\ wpc' = IF stop_flag THEN "exit" ELSE "update"
    /\ UNCHANGED << report, lock, notify_calls, stop_flag, clock >>
    /\ WatcherFrame

\* spawn_timer_thread: update the duration under the lock, sleep 10ms, loop
TimerUpdate ==
    /\ ProcessAlive
    /\ config.test_type = "RequestCount"
    /\ wpc = "update"
    /\ lock = 0
    /\ \E now \in Elapsed :
          /\ clock' = now
          /\ report' = UpdateElapsed(report, now)
    /\ wpc' = "flag"
    /\ UNCHANGED << lock, notify_calls, stop_flag >>
    /\ WatcherFrame

\* spawn_duration_thread: while start.elapsed() <= duration
DurationCheck ==
    /\ ProcessAlive
    /\ config.test_type = "Duration"
    /\ wpc = "check"
    /\ \E now \in Elapsed :
          /\ clock' = now
          /\ wpc' = IF WithinDuration(now) THEN "update" ELSE "notify"
    /\ UNCHANGED << report, lock, notify_calls, stop_flag >>
    /\ WatcherFrame

\* spawn_duration_thread: update the duration under the lock, sleep 10ms, loop
DurationUpdate ==
    /\ ProcessAlive
    /\ config.test_type = "Duration"
    /\ wpc = "update"
    /\ lock = 0
    /\ \E now \in Elapsed :
          /\ clock' = now
          /\ report' = UpdateElapsed(report, now)
    /\ wpc' = "check"
    /\ UNCHANGED << lock, notify_calls, stop_flag >>
    /\ WatcherFrame

\* spawn_duration_thread_with_flag: while start.elapsed() <= duration
FlagCheck ==
    /\ ProcessAlive
    /\ config.test_type = "Both"
    /\ wpc = "check"
    /\ \E now \in Elapsed :
          /\ clock' = now
          /\ wpc' = IF WithinDuration(now) THEN "flag" ELSE "notify"
    /\ UNCHANGED << report, lock, notify_calls, stop_flag >>
    /\ WatcherFrame

\* spawn_duration_thread_with_flag: if stop_flag.load() { return; }
FlagLoad ==
    /\ ProcessAlive
    /\ config.test_type = "Both"
    /\ wpc = "flag"
    /\ wpc' = IF stop_flag THEN "exit" ELSE "update"
    /\ UNCHANGED << report, lock, notify_calls, stop_flag, clock >>
    /\ WatcherFrame

\* spawn_duration_thread_with_flag: update the duration, sleep 10ms, loop
FlagUpdate ==
    /\ ProcessAlive
    /\ config.test_type = "Both"
    /\ wpc = "update"
    /\ lock = 0
    /\ \E now \in Elapsed :
          /\ clock' = now
          /\ report' = UpdateElapsed(report, now)
    /\ wpc' = "check"
    /\ UNCHANGED << lock, notify_calls, stop_flag >>
    /\ WatcherFrame

\* notify.notify_waiters() after the while loop of either duration thread:
\* wakes the Notified futures that exist now, stores no permit
NotifyWaiters ==
    /\ ProcessAlive
    /\ wpc = "notify"
    /\ notify_calls' = notify_calls + 1
    /\ wpc' = "exit"
    /\ UNCHANGED << report, lock, stop_flag, clock >>
    /\ WatcherFrame

\* the thread's closure returns and drops its Arc<Runner>
ThreadExit ==
    /\ ProcessAlive
    /\ wpc = "exit"
    /\ wpc' = "done"
    /\ UNCHANGED << report, lock, notify_calls, stop_flag, clock >>
    /\ WatcherFrame

(* --------------------------- print_full_report ------------------------- *)
\* the histogram has BUCKET_COUNT rows
BUCKET_COUNT == 10

Min(a, b) == IF a <= b THEN a ELSE b

\* iter().sum()
RECURSIVE Sum(_)
Sum(s) == IF s = << >> THEN 0 ELSE Head(s) + Sum(Tail(s))

\* a percentile taken at the rank rounded up, less one
PercentileCeilRank(latencies_ms, p) ==
    latencies_ms[Min(((p * Len(latencies_ms) + 99) \div 100) - 1,
                     Len(latencies_ms) - 1) + 1]

\* the closure `percentile`: idx = ((p / 100.0) * len as f64) as usize, then
\* latencies_ms[idx.min(len - 1)]. The latencies are whole milliseconds
\* (as_millis); for p = 50, 75, 90 and 99 the f64 product truncates to
\* floor(p * len / 100). Sequences are 1-based here.
Percentile(latencies_ms, p) ==
    latencies_ms[Min((p * Len(latencies_ms)) \div 100, Len(latencies_ms) - 1) + 1]

\* print_latency_distribution: nothing for an empty vector, else the four
\* percentiles printed
PrintLatencyDistribution(latencies_ms) ==
    IF Len(latencies_ms) = 0 THEN << >>
    ELSE [p \in {50, 75, 90, 99} |-> Percentile(latencies_ms, p)]

\* a bucket index that is not clamped to the last bucket
BucketUnclamped(latency, max) ==
    IF max = 0 THEN BUCKET_COUNT - 1
    ELSE (latency * BUCKET_COUNT) \div max

\* (latency / bucket_size).min((BUCKET_COUNT - 1) as f64) as usize with
\* bucket_size = max / BUCKET_COUNT; when max is 0 the quotient is NaN and
\* f64::min returns its other argument
Bucket(latency, max) ==
    IF max = 0 THEN BUCKET_COUNT - 1
    ELSE Min((latency * BUCKET_COUNT) \div max, BUCKET_COUNT - 1)

\* print_latency_histogram: nothing for an empty vector, else the count of each
\* bucket; histogram[bucket] += 1 panics when bucket is past the last row, and
\* then nothing is printed
PrintLatencyHistogram(latencies_ms) ==
    IF Len(latencies_ms) = 0 THEN << >>
    ELSE LET max == latencies_ms[Len(latencies_ms)]
             row(k) == Bucket(latencies_ms[k], max)
         IN  IF \E k \in DOMAIN latencies_ms : row(k) >= BUCKET_COUNT
             THEN << >>
             ELSE [i \in 1..BUCKET_COUNT |->
                     Cardinality({k \in DOMAIN latencies_ms : row(k) = i - 1})]

\* a variance that divides by one less than the number of latencies
SampleVariance(latencies_ms) ==
    LET n == Len(latencies_ms)
        sum == Sum(latencies_ms)
    IN  [ num |-> Sum([k \in 1..n |-> (n * latencies_ms[k] - sum) * (n * latencies_ms[k] - sum)]),
          den |-> n * n * (n - 1) ]

\* variance = sum of (value - mean)^2, divided by len, with mean = sum / len.
\* The f64 values are kept as fractions num / den: value - mean is
\* (len * value - sum) / len, so the sum of squares is over len^2
Variance(latencies_ms) ==
    LET n == Len(latencies_ms)
        sum == Sum(latencies_ms)
    IN  [ num |-> Sum([k \in 1..n |-> (n * latencies_ms[k] - sum) * (n * latencies_ms[k] - sum)]),
          den |-> n * n * n ]

\* print_request_timings_summary: mean = sum / len (0.0 / 0.0 for an empty
\* vector), the variance, and stdev = variance.sqrt(), kept as the fraction
\* whose square root it is
PrintRequestTimingsSummary(latencies_ms) ==
    [ mean     |-> [num |-> Sum(latencies_ms), den |-> Len(latencies_ms)],
      variance |-> Variance(latencies_ms),
      stdev    |-> [sqrt_of |-> Variance(latencies_ms)] ]

\* a print_report that moves the latencies out of the report to sort them
PrintReportTakesLatencies(r) == [r EXCEPT !.latencies = << >>]

\* print_report: lock the report, sort the latencies in place, print
PrintReport(r) == [r EXCEPT !.latencies = SortSeq(@, <)]

\* the lines print_report prints of the sorted latencies: the distribution, with
\* the histogram in the full report and with the timings summary in the
\* summarized one
Printed(r) ==
    [ distribution |-> PrintLatencyDistribution(r.latencies),
      histogram    |-> PrintLatencyHistogram(r.latencies),
      summary      |-> PrintRequestTimingsSummary(r.latencies) ]

(* ------------------------------- main.rs ------------------------------- *)
\* the Ctrl+C handler: runner_clone.print_report(); std::process::exit(0),
\* which ends every thread and every task of the process
CtrlC ==
    /\ ProcessAlive
    /\ lock = 0
    /\ report' = PrintReport(report)
    /\ snapshot' = Append(snapshot, report')
    /\ printed' = Append(printed, Printed(report'))
    /\ exited' = TRUE
    /\ tasks' = [t \in TaskIds |-> IF Pending(t) THEN "cancelled" ELSE tasks[t]]
    /\ wpc' = IF wpc = "none" THEN "none" ELSE "done"
    /\ UNCHANGED << config, inputs, lock, epc, batch_no, handles, notified,
                    notify_calls, stop_flag, clock, batches, signal_won, join_failed >>

\* Ok(res) => res.print_report() once run has returned the Runner
MainPrintReport ==
    /\ ProcessAlive
    /\ epc = "frozen"
    /\ lock = 0
    /\ report' = PrintReport(report)
    /\ snapshot' = Append(snapshot, report')
    /\ printed' = Append(printed, Printed(report'))
    /\ epc' = "reported"
    /\ UNCHANGED << config, inputs, lock, tasks, batch_no, handles, notified,
                    notify_calls, stop_flag, wpc, clock, batches, signal_won, join_failed, exited >>

(* ---------------------------- specification ---------------------------- *)
Next ==
    \/ Run \/ Connect
    \/ RunReqCountTest \/ CountFullBatch \/ CountBatchResolved
    \/ CountRemainder \/ CountRemainderResolved
    \/ RunDurationTest \/ DurationSelect \/ DurationBatchResolved \/ DurationNotified
    \/ RunBothTests \/ BothSelect \/ BothBatchResolved \/ BothNotifiedBreak
    \/ BothRemainderSelect \/ BothRemainderResolved \/ BothNotifiedReturn
    \/ NoRemainder \/ StoreStopFlag \/ SleepDone \/ DropRuntime \/ TryUnwrap
    \/ PollRunBatch \/ JoinNext
    \/ \E t \in TaskIds :
          \/ GetAsyncErr(t) \/ TaskPanics(t) \/ ReadBodyErr(t)
          \/ ReadBodyOk(t) \/ CountRequest(t)
    \/ TimerFlag \/ TimerUpdate
    \/ DurationCheck \/ DurationUpdate
    \/ FlagCheck \/ FlagLoad \/ FlagUpdate
    \/ NotifyWaiters \/ ThreadExit
    \/ CtrlC
    \/ MainPrintReport

Spec == Init /\ [][Next]_vars

\* a thread that holds the report mutex is inside a stretch of code that never
\* waits for another thread or task (the synchronous tail of send_request, the
\* blocking connect of is_url_reachable), so the scheduler lets it reach the
\* end of the guard's scope
HolderReleases ==
    /\ WF_vars(Connect)
    /\ WF_vars(\E t \in TaskIds : CountRequest(t))

FairSpec == Spec /\ HolderReleases

\* the std::thread that keeps the elapsed time (timer thread or duration
\* watcher) runs whenever it can
TimingThreadRuns ==
    WF_vars(TimerFlag \/ TimerUpdate \/ DurationCheck \/ DurationUpdate
            \/ FlagCheck \/ FlagLoad \/ FlagUpdate \/ NotifyWaiters \/ ThreadExit)

WatcherSpec == Spec /\ HolderReleases /\ TimingThreadRuns

(* ------------------ specification with varied responses ---------------- *)
\* a server and transport that answer every request of a run with one status,
\* one body length, one kind of transport error and one latency, and with any
\* of the server headers given ("none": no such header)
Server(status, server_headers, html_read, kind, latency) ==
    [ statuses |-> {status}, headers |-> server_headers, bodies |-> {html_read},
      kinds |-> {kind}, latencies |-> {latency} ]

\* the servers of DataSpec: statuses on both sides of 200 and of 300, bodies of
\* no byte, of whole KB and of a fraction of a KB, both kinds of error, and a
\* server header that is absent, empty, one name, or varies
DataInputs ==
    { Server(199, {"none"}, 0, "Timeout", 0),
      Server(200, {"none"}, 1024, "ConnectionFailed", 7),
      Server(299, {"none"}, 1500, "Timeout", 7),
      Server(300, {"none"}, 1024, "ConnectionFailed", 1),
      Server(404, {""}, 2048, "Timeout", 7),
      Server(503, {"nginx"}, 1024, "Timeout", 7),
      Server(200, {"none", "nginx", "apache"}, 1024, "Timeout", 7) }

\* as Init, for a server of DataInputs and either one request, or
\* MaxDataRequests requests at a concurrency of one less
InitData ==
    /\ config \in { [test_type |-> m, requests |-> n, concurrency |-> c,
                     duration |-> ConfigDuration] :
                       m \in TestTypes, n \in {1, MaxDataRequests},
                       c \in {1, MaxDataRequests - 1} }
    /\ config.requests = 1 <=> config.concurrency = 1
    /\ inputs \in DataInputs
    /\ report = [ReportDefault EXCEPT !.concurrency = config.concurrency]
    /\ lock = 0
    /\ tasks = << >>
    /\ epc = "start"
    /\ batch_no = 0
    /\ handles = NoHandles
    /\ notified = 0 - 1
    /\ notify_calls = 0
    /\ stop_flag = FALSE
    /\ wpc = "none"
    /\ clock = 0
    /\ batches = << >>
    /\ signal_won = FALSE
    /\ join_failed = FALSE
    /\ snapshot = << >>
    /\ printed = << >>
    /\ exited = FALSE

DataSpec == InitData /\ [][Next]_vars

(* ---------------- specification of an unbounded Duration run ----------- *)
\* a server whose responses break off in the body: get_async returns Ok(res)
\* and res.text().await? returns the error, so send_request records nothing
BrokenBodyInputs ==
    [ statuses  |-> {200},
      headers   |-> {"none"},
      bodies    |-> {},
      kinds     |-> {},
      latencies |-> {7} ]

\* a Duration run against that server
InitLoop ==
    /\ config \in { [test_type |-> "Duration", requests |-> 1, concurrency |-> c,
                     duration |-> ConfigDuration] : c \in 1..MaxRequests }
    /\ inputs = BrokenBodyInputs
    /\ report = [ReportDefault EXCEPT !.concurrency = config.concurrency]
    /\ lock = 0
    /\ tasks = << >>
    /\ epc = "start"
    /\ batch_no = 0
    /\ handles = NoHandles
    /\ notified = 0 - 1
    /\ notify_calls = 0
    /\ stop_flag = FALSE
    /\ wpc = "none"
    /\ clock = 0
    /\ batches = << >>
    /\ signal_won = FALSE
    /\ join_failed = FALSE
    /\ snapshot = << >>
    /\ printed = << >>
    /\ exited = FALSE

StillLive(task) == task \in {"pending", "abandoned", "s_pushed"}

\* between two iterations of `loop`: the JoinHandles of the batches so far were
\* consumed or dropped by run_batch and the runtime has freed the tasks that
\* returned, so the program holds nothing of them; the tasks still alive keep
\* their order
ForgetFinished ==
    /\ ProcessAlive
    /\ config.test_type = "Duration"
    /\ epc = "full"
    /\ batches # << >>
    /\ tasks' = SelectSeq(tasks, StillLive)
    /\ batches' = << >>
    /\ batch_no' = 0
    /\ UNCHANGED << report, epc, handles, notified, notify_calls, stop_flag, wpc,
                    signal_won, join_failed >>
    /\ EngineFrame

\* the steps of a Duration run that nobody interrupts
NextLoop ==
    \/ Run \/ Connect
    \/ RunDurationTest \/ DurationSelect \/ DurationBatchResolved \/ DurationNotified
    \/ DropRuntime \/ TryUnwrap
    \/ PollRunBatch
    \/ \E t \in TaskIds : ReadBodyErr(t)
    \/ DurationCheck \/ DurationUpdate
    \/ NotifyWaiters \/ ThreadExit
    \/ MainPrintReport
    \/ ForgetFinished

\* the main thread (block_on polls the select! on it) runs whenever it can
MainThreadRuns ==
    WF_vars(Run \/ Connect \/ RunDurationTest \/ DurationSelect \/ PollRunBatch
            \/ DurationBatchResolved \/ DurationNotified \/ DropRuntime \/ TryUnwrap
            \/ MainPrintReport \/ ForgetFinished)

\* the runtime's workers poll every spawned task that can make progress
TasksRun == \A i \in 1..MaxRequests : WF_vars(i \in TaskIds /\ ReadBodyErr(i))

\* the std::thread of the duration watcher runs whenever it can
DurationThreadRuns ==
    WF_vars(DurationCheck \/ DurationUpdate \/ NotifyWaiters \/ ThreadExit)

\* time passes: some read of start.elapsed() in the while condition is above
\* the configured duration
ClockPassesDuration == SF_vars(DurationCheck /\ wpc' = "notify")

LoopSpec ==
    /\ InitLoop /\ [][NextLoop]_vars
    /\ MainThreadRuns /\ TasksRun /\ DurationThreadRuns /\ ClockPassesDuration

(* ------------------- specification of the final report ----------------- *)
\* ten requests that completed after 1 ms to 10 ms, in their completion order
TenLatencies == << 3, 1, 4, 10, 5, 9, 2, 6, 8, 7 >>

\* eight requests that completed after 2 ms to 9 ms, in their completion order
EightLatencies == << 5, 4, 9, 2, 4, 7, 5, 4 >>

\* the vectors report.latencies may hold when a run is over: every completion
\* order of up to MaxLatencies latencies of 0..MaxLatency ms, TenLatencies and
\* EightLatencies
LatencyVectors ==
    UNION { [1..n -> 0..MaxLatency] : n \in 0..MaxLatencies }
        \cup { TenLatencies, EightLatencies }

\* a Duration run at concurrency 1 has returned its Runner: every batch but the
\* one that lost the select! completed its request with a latency of the
\* vector, and the watcher is over
InitReport ==
    /\ config = [test_type |-> "Duration", requests |-> 1, concurrency |-> 1,
                 duration |-> ConfigDuration]
    /\ inputs = ControlInputs
    /\ \E latencies_ms \in LatencyVectors :
          /\ report = [ReportDefault EXCEPT
                          !.host = "host", !.port = 80, !.concurrency = 1,
                          !.completed_requests = Len(latencies_ms),
                          !.total_html_read = 2048 * Len(latencies_ms),
                          !.duration = ConfigDuration,
                          !.latencies = latencies_ms]
          /\ tasks = [i \in 1..Len(latencies_ms) |-> "ok"]
          /\ batches = [i \in 1..Len(latencies_ms) |-> 1]
          /\ batch_no = Len(latencies_ms)
    /\ lock = 0
    /\ epc = "frozen"
    /\ handles = NoHandles
    /\ notified = 0 - 1
    /\ notify_calls = 1
    /\ stop_flag = FALSE
    /\ wpc = "done"
    /\ clock = MaxClock
    /\ signal_won = TRUE
    /\ join_failed = FALSE
    /\ snapshot = << >>
    /\ printed = << >>
    /\ exited = FALSE

\* main prints the report, or the Ctrl+C handler does so first
NextReport == MainPrintReport \/ CtrlC

ReportSpec == InitReport /\ [][NextReport]_vars

(* ------------------------------- claims -------------------------------- *)
\* a step that launches requests (tokio::spawn in run_batch)
Launches == Len(tasks') > Len(tasks)

\* the engine is past the block_on body
PastBlockOn == epc \in {"drop", "unwrap", "frozen", "panicked", "reported"}

\* C1: when a RequestCount run, or a Both run in which the signal never won a
\* race, returns its Runner, and every task produced an outcome of the request
\* (none panicked), completed_requests + failed_requests = config.requests.
C1_CompletedPlusFailedIsRequestCount ==
    ( /\ epc = "frozen"
      /\ config.test_type \in {"RequestCount", "Both"}
      /\ ~signal_won
      /\ \A t \in TaskIds : tasks[t] # "panicked" )
    => report.completed_requests + report.failed_requests = config.requests

\* C2: in Both mode no requests are launched in a step that starts after the
\* notified() branch has won a select!.
C2_NoBatchAfterSignalWon ==
    [][(config.test_type = "Both" /\ signal_won) => ~Launches]_vars

\* C3: in Duration mode no requests are launched in a step that starts after
\* the watcher has called notify_waiters().
C3_NoBatchAfterSignalRaised ==
    [][(config.test_type = "Duration" /\ notify_calls > 0) => ~Launches]_vars

\* C4: a step in which a task that was still suspended when notified() won the
\* race of its batch goes on (other than by being dropped) leaves the report as
\* it was.
C4_AbandonedNeverRecorded ==
    [][\A t \in TaskIds :
          (tasks[t] = "abandoned" /\ tasks'[t] \notin {"abandoned", "cancelled"})
          => report' = report]_vars

\* C5: whenever the report lock is free the report holds as many latencies as
\* completed requests, and so does every report read by print_report (the
\* Ctrl+C handler's mid-run read and the final one).
C5_LatenciesMatchCompleted ==
    /\ lock = 0 => Len(report.latencies) = report.completed_requests
    /\ \A i \in DOMAIN snapshot :
          Len(snapshot[i].latencies) = snapshot[i].completed_requests

\* C5 witness: the handler read the report in the middle of a run, after a
\* request had completed and while another one was still in flight.
C5_Witness ==
    /\ exited
    /\ Len(snapshot) = 1
    /\ snapshot[1].completed_requests >= 1
    /\ \E t \in TaskIds : tasks[t] = "cancelled"

\* C6: when every request so far ended as a success, a transport failure, a
\* timeout or a failure to read the body (no task panicked), requests are
\* launched only when no run_batch future is being awaited, and in RequestCount
\* mode only when no earlier request is still in flight.
C6_NoOverlapBetweenBatches ==
    [][(Launches /\ \A t \in TaskIds : tasks[t] # "panicked") =>
          /\ ~handles.polled
          /\ config.test_type = "RequestCount" => LiveTasks = {}]_vars

\* C7: at most config.concurrency launched tasks are alive at any time.
C7_AtMostConcurrencyInFlight ==
    Cardinality(LiveTasks) <= config.concurrency

\* the batch sizes C8 names for n requests at concurrency c
BatchPlan(n, c) ==
    [i \in 1..(n \div c) |-> c] \o (IF n % c # 0 THEN << n % c >> ELSE << >>)

IsPrefix(s, t) == Len(s) <= Len(t) /\ \A i \in 1..Len(s) : s[i] = t[i]

\* C8: in RequestCount mode the batches launched so far are the first batches
\* of floor(n/c) batches of size c followed by one of size n mod c (when that is
\* not 0), and once the engine has set the stop flag they are all of them, n
\* requests in total.
C8_BatchSizesFollowPlan ==
    config.test_type = "RequestCount" =>
        /\ IsPrefix(batches, BatchPlan(config.requests, config.concurrency))
        /\ (epc = "sleep" \/ PastBlockOn) =>
              /\ batches = BatchPlan(config.requests, config.concurrency)
              /\ Sum(batches) = config.requests
              /\ Len(tasks) = config.requests

\* C8 witness: a RequestCount run of 3 requests at concurrency 2 has returned
\* after batches of 2 and 1.
C8_Witness ==
    /\ config.test_type = "RequestCount"
    /\ config.requests = 3
    /\ config.concurrency = 2
    /\ epc = "frozen"
    /\ batches = << 2, 1 >>

\* C9: a step in which a request that was not abandoned returns from
\* send_request, Ok or Err, leaves completed_requests + failed_requests one
\* higher than when the request was launched: the step that ends the request
\* raises exactly one of the two by one.
C9_EveryFinishedRequestCounted ==
    [][\A t \in TaskIds :
          (tasks[t] \in {"pending", "s_pushed"} /\ tasks'[t] \in {"ok", "err"})
          => /\ report'.completed_requests + report'.failed_requests
                = report.completed_requests + report.failed_requests + 1
             /\ report'.completed_requests >= report.completed_requests
             /\ report'.failed_requests >= report.failed_requests]_vars

\* C10: once a run_batch has returned through a JoinError no requests are
\* launched any more and run does not return the Runner.
C10_JoinErrorIsFatal ==
    [][join_failed => (~Launches /\ epc' \notin {"frozen", "reported"})]_vars

\* C11: Arc::try_unwrap never panics with "Runner instance still has active
\* references", and whenever run has returned the Runner the timer / watcher
\* thread is over and no request task is alive, in every mode.
C11_FreezeFindsNoOtherHolder ==
    /\ epc # "panicked"
    /\ epc \in {"frozen", "reported"} => (wpc \in {"none", "done"} /\ LiveTasks = {})

\* C12: in Both mode notify_waiters() is never called in a step that starts
\* after the engine has stored true into the stop flag.
C12_NoSignalAfterStopFlag ==
    [][(config.test_type = "Both" /\ stop_flag) => notify_calls' = notify_calls]_vars

\* C13: notify_waiters() is called at most once in a run, and only by the
\* duration watcher on its way out; it is never called in RequestCount mode; and
\* when a Duration run has left its block_on it has been called exactly once.
C13_SignalRaisedAtMostOnce ==
    /\ notify_calls <= 1
    /\ notify_calls = 1 => wpc \in {"exit", "done"}
    /\ config.test_type = "RequestCount" => notify_calls = 0
    /\ (config.test_type = "Duration" /\ PastBlockOn) => notify_calls = 1

\* C13 witness: a Duration run has returned its Runner after one notify_waiters().
C13_Witness ==
    /\ config.test_type = "Duration"
    /\ epc = "frozen"
    /\ notify_calls = 1
    /\ Len(tasks) > 0

\* C14: completed_requests + failed_requests never exceeds the number of
\* requests spawned so far, in every mode.
C14_CountedAtMostDispatched ==
    report.completed_requests + report.failed_requests <= Len(tasks)

\* C14 witness: a run has returned with every one of its three requests
\* counted, some completed and some failed.
C14_Witness ==
    /\ epc = "frozen"
    /\ Len(tasks) = 3
    /\ report.completed_requests + report.failed_requests = 3
    /\ report.completed_requests > 0
    /\ report.failed_requests > 0

\* C15: when the pre-flight check has failed and run has returned its error, no
\* request was spawned, no batch was launched, no timer / watcher thread was
\* started, and completed_requests and failed_requests are 0.
C15_PreflightFailureSendsNothing ==
    epc = "failed" =>
        /\ Len(tasks) = 0
        /\ batches = << >>
        /\ wpc = "none"
        /\ notify_calls = 0
        /\ report.completed_requests = 0
        /\ report.failed_requests = 0

\* C15 witness: run has returned its error after is_url_reachable had written
\* the host into the report.
C15_Witness ==
    /\ epc = "failed"
    /\ report.host # ""
    /\ lock = 0

\* the requests that have counted themselves in the report
Counted == {t \in TaskIds : tasks[t] = "ok"}

\* C17: completed_requests + failed_requests is the number of requests that
\* returned Ok(()) from send_request, one increment for each and none for any
\* other; a RequestCount or Both run never spawns more than config.requests
\* requests, and a RequestCount run that has set the stop flag has spawned
\* exactly config.requests, however many of them failed.
C17_NoRetries ==
    /\ report.completed_requests + report.failed_requests = Cardinality(Counted)
    /\ config.test_type \in {"RequestCount", "Both"} => Len(tasks) <= config.requests
    /\ (config.test_type = "RequestCount" /\ (epc = "sleep" \/ PastBlockOn))
          => Len(tasks) = config.requests

\* C17 witness: a RequestCount run of three requests has returned after every
\* one of them failed.
C17_Witness ==
    /\ config.test_type = "RequestCount"
    /\ config.requests = 3
    /\ epc = "frozen"
    /\ report.failed_requests = 3
    /\ Len(tasks) = 3

\* C18: no step of any thread stores a duration smaller than the one the
\* report holds.
C18_ElapsedNeverDecreases ==
    [][report'.duration >= report.duration]_vars

\* C18 witness: the timer thread of a RequestCount run has stored the latest
\* elapsed time of the clock.
C18_Witness ==
    /\ config.test_type = "RequestCount"
    /\ report.duration = MaxClock
    /\ wpc = "flag"
    /\ Len(tasks) > 0

\* C16: whenever the process is running and the report mutex is free, the
\* Ctrl+C handler can lock it, read the report and exit, whatever requests are
\* in flight; and whenever the mutex is held, it is free again later (or the
\* process is over), so the handler never waits forever.
C16_HandlerGetsTheLock ==
    /\ []((ProcessAlive /\ lock = 0) => ENABLED CtrlC)
    /\ [](lock # 0 => <>(lock = 0 \/ ~ProcessAlive))

\* C16 witness: the handler has read the report and ended the process while two
\* requests of a batch were in flight, after a third one had completed.
C16_Witness ==
    /\ exited
    /\ Len(snapshot) = 1
    /\ Cardinality({t \in TaskIds : tasks[t] = "cancelled"}) = 2
    /\ snapshot[1].latencies # << >>
    /\ epc = "await_full"

\* the index C19 names for percentile p of n sorted latencies: the largest
\* 0-based index idx <= n - 1 with idx <= p / 100 * n
NearestRank(p, n) ==
    CHOOSE idx \in 0..(n - 1) :
        /\ 100 * idx <= p * n
        /\ idx = n - 1 \/ 100 * (idx + 1) > p * n

\* C19: every print_report of a non-empty report prints, for p = 50, 75, 90 and
\* 99, the sorted latency at 0-based index min(floor(p / 100 * N), N - 1); of
\* the latencies 1..10 it prints 6 for p = 50 and 10 for p = 99; of an empty
\* report it prints no distribution.
C19_PercentileIsNearestRank ==
    \A i \in DOMAIN printed :
        LET sorted == snapshot[i].latencies
            N == Len(sorted)
            distribution == printed[i].distribution
        IN  /\ N = 0 => distribution = << >>
            /\ N > 0 =>
                  /\ DOMAIN distribution = {50, 75, 90, 99}
                  /\ \A j \in 1..(N - 1) : sorted[j] <= sorted[j + 1]
                  /\ \A p \in {50, 75, 90, 99} :
                        distribution[p] = sorted[NearestRank(p, N) + 1]
            /\ sorted = << 1, 2, 3, 4, 5, 6, 7, 8, 9, 10 >> =>
                  (distribution[50] = 6 /\ distribution[99] = 10)

\* C19 witness: the report of the latencies 1..10 has been printed.
C19_Witness ==
    /\ Len(printed) = 1
    /\ snapshot[1].latencies = << 1, 2, 3, 4, 5, 6, 7, 8, 9, 10 >>
    /\ printed[1].distribution[50] = 6

\* C20: every print_report of a non-empty report prints BUCKET_COUNT bucket
\* counts that add up to the number of latencies; bucket b < 9 counts the
\* latencies v with b * max <= 10 * v < (b + 1) * max and the last bucket those
\* with 10 * v >= 9 * max, the latencies equal to the maximum among them.
C20_HistogramCountsEveryLatency ==
    \A i \in DOMAIN printed :
        LET sorted == snapshot[i].latencies
            N == Len(sorted)
            max == sorted[N]
            histogram == printed[i].histogram
            Last == BUCKET_COUNT - 1
            InBucket(v, b) ==
                IF b = Last THEN BUCKET_COUNT * v >= Last * max
                ELSE b * max <= BUCKET_COUNT * v /\ BUCKET_COUNT * v < (b + 1) * max
        IN  N > 0 =>
              /\ Len(histogram) = BUCKET_COUNT
              /\ Sum(histogram) = N
              /\ \A b \in 0..Last :
                    histogram[b + 1] = Cardinality({k \in 1..N : InBucket(sorted[k], b)})
              /\ histogram[BUCKET_COUNT] >= Cardinality({k \in 1..N : sorted[k] = max})

\* C20 witness: a histogram has been printed of four latencies that fall into
\* more than one bucket, the largest of them twice.
C20_Witness ==
    /\ Len(printed) = 1
    /\ Len(snapshot[1].latencies) = 4
    /\ printed[1].histogram[BUCKET_COUNT] = 2
    /\ printed[1].histogram[1] = 1

\* C21: every print_report of a non-empty report prints as mean the sum of the
\* latencies over their number N, as variance the mean of the squares less the
\* square of the mean (the population variance: N, not N - 1, divides), and as
\* stdev the square root of that variance; of the latencies 2, 4, 4, 4, 5, 5, 7
\* and 9 it prints the mean 5, the variance 4 and the stdev 2.
C21_PopulationMeanAndStdev ==
    \A i \in DOMAIN printed :
        LET sorted == snapshot[i].latencies
            N == Len(sorted)
            squares == Sum([k \in 1..N |-> sorted[k] * sorted[k]])
            summary == printed[i].summary
        IN  N > 0 =>
              /\ summary.mean.den > 0
              /\ summary.mean.num * N = Sum(sorted) * summary.mean.den
              /\ summary.variance.den > 0
              /\ summary.variance.num * N * N
                    = (N * squares - Sum(sorted) * Sum(sorted)) * summary.variance.den
              /\ summary.stdev.sqrt_of = summary.variance
              /\ sorted = << 2, 4, 4, 4, 5, 5, 7, 9 >> =>
                    /\ summary.mean.num = 5 * summary.mean.den
                    /\ summary.variance.num = 4 * summary.variance.den
                    /\ 2 * 2 * summary.stdev.sqrt_of.den = summary.stdev.sqrt_of.num

\* C21 witness: the report of the latencies 2, 4, 4, 4, 5, 5, 7 and 9 has been
\* printed.
C21_Witness ==
    /\ Len(printed) = 1
    /\ snapshot[1].latencies = << 2, 4, 4, 4, 5, 5, 7, 9 >>
    /\ printed[1].summary.mean.den = 8

C24_TimerHasNoStoppingAuthority ==
    config.test_type = "RequestCount" =>
        /\ notify_calls = 0
        /\ notified = 0 - 1
        /\ ~signal_won
        /\ \A t \in TaskIds : tasks[t] # "abandoned"
        /\ epc \in {"stop", "sleep", "drop", "unwrap", "frozen", "panicked", "reported"}
              => Len(tasks) = config.requests

\* C24 witness: a RequestCount run of three batches has returned its Runner
\* with all three requests spawned, and the elapsed time its timer stored is
\* past config.duration.
C24_Witness ==
    /\ config.test_type = "RequestCount"
    /\ config.requests = 3
    /\ config.concurrency = 1
    /\ epc = "frozen"
    /\ report.duration > config.duration
    /\ Len(tasks) = 3

\* C25: in Duration and Both mode, whenever notify_waiters() has been called
\* the last elapsed time the watcher read is greater than config.duration, and
\* no step that starts after the call changes report.duration.
C25_SignalOnlyAfterDuration ==
    [][/\ notify_calls' > 0 => clock' > config.duration
       /\ notify_calls > 0 => report'.duration = report.duration]_vars

\* C25 witness: the watcher of a Both run has updated the duration, raised the
\* signal and returned.
C25_Witness ==
    /\ config.test_type = "Both"
    /\ notify_calls = 1
    /\ wpc = "done"
    /\ report.duration > 0
    /\ ~exited

\* C26: in Both mode the stop flag is set only when no select! was won by the
\* signal and every request of the plan has been spawned.
C26_StopFlagOnlyAfterCountPath ==
    (config.test_type = "Both" /\ stop_flag) =>
        (~signal_won /\ Len(tasks) = config.requests)

\* C23: no step of a run, the step in which notified() wins a select!, the
\* drop of the runtime, the freeze and the printing included, lowers
\* completed_requests, failed_requests, timeouts, non_2xx_responses or the
\* number of latencies.
C23_RecordedStaysRecorded ==
    [][/\ report'.completed_requests >= report.completed_requests
       /\ report'.failed_requests >= report.failed_requests
       /\ report'.timeouts >= report.timeouts
       /\ report'.non_2xx_responses >= report.non_2xx_responses
       /\ Len(report'.latencies) >= Len(report.latencies)]_vars

\* C23 witness: a Duration run whose signal won the select! while a request was
\* in flight has returned and printed its report, which still counts the request
\* that had completed before, a non-2xx response.
C23_Witness ==
    /\ config.test_type = "Duration"
    /\ signal_won
    /\ epc = "reported"
    /\ \E t \in TaskIds : tasks[t] = "cancelled"
    /\ report.completed_requests = 1
    /\ report.non_2xx_responses = 1
    /\ Len(report.latencies) = 1

\* the success arm as one operation on the report
RecordSuccess(r, latency, html_read, status, software) ==
    [r EXCEPT !.latencies = Append(@, latency),
              !.total_html_read = @ + html_read,
              !.completed_requests = @ + 1,
              !.non_2xx_responses = IF status \div 100 # 2 THEN @ + 1 ELSE @,
              !.server_software = software]

\* C27: the success arm of send_request runs under one guard of the mutex: from
\* the step in which a task takes the lock to the step in which it drops it
\* nobody else changes the report, and over the two steps the report gains
\* exactly one latency (the one measured), the length of the body, one completed
\* request, and one non-2xx response if and only if status / 100 # 2; so
\* non_2xx_responses <= completed_requests whenever the lock is free.
C27_RecordSuccessIsOneAtomicStep ==
    [][/\ \A t \in TaskIds :
            /\ (Pending(t) /\ tasks'[t] = "s_pushed") =>
                  /\ lock = 0 /\ lock' = t
                  /\ \E latency \in inputs.latencies, html_read \in inputs.bodies :
                        report' = [report EXCEPT
                                      !.latencies = Append(@, latency),
                                      !.total_html_read = @ + html_read]
            /\ (tasks[t] = "s_pushed" /\ tasks'[t] = "ok") =>
                  /\ lock = t /\ lock' = 0
                  /\ \E latency \in inputs.latencies, html_read \in inputs.bodies,
                        status \in inputs.statuses :
                        /\ report.latencies # << >>
                        /\ report.latencies[Len(report.latencies)] = latency
                        /\ LET before == [report EXCEPT
                                             !.latencies = SubSeq(@, 1, Len(@) - 1),
                                             !.total_html_read = @ - html_read]
                           IN  report' = RecordSuccess(before, latency, html_read, status,
                                                     report'.server_software)
            /\ (lock = t /\ tasks'[t] = tasks[t]) =>
                  report' = report /\ lock' = lock /\ printed' = printed
       /\ report'.non_2xx_responses <= report'.completed_requests]_vars

\* C27 witness: against a server answering 300 with a body of 1024 bytes, two
\* requests were recorded and the lock is free: two latencies, 2048 bytes, two
\* completed requests, both non-2xx.
C27_Witness ==
    /\ lock = 0
    /\ inputs.statuses = {300}
    /\ report.completed_requests = 2
    /\ Len(report.latencies) = 2
    /\ report.total_html_read = 2048
    /\ report.non_2xx_responses = 2

\* C28: server_software changes at most once in a run: only the step that
\* counts a successful request changes it, only while it is empty, and to the
\* server header of that response; once it is non-empty no step changes it,
\* whatever the order in which concurrent requests complete and whatever
\* header (another name, an empty one or none) the later responses carry.
C28_ServerSoftwareSetOnce ==
    [][/\ report.server_software # "" =>
            report'.server_software = report.server_software
       /\ report'.server_software # report.server_software =>
            /\ report'.server_software \in inputs.headers \ {"none"}
            /\ \E t \in TaskIds :
                  tasks[t] = "s_pushed" /\ tasks'[t] = "ok" /\ lock = t
       /\ \A t \in TaskIds :
            (/\ tasks[t] = "s_pushed" /\ tasks'[t] = "ok"
             /\ report.server_software = ""
             /\ "none" \notin inputs.headers) =>
                report'.server_software \in inputs.headers]_vars

\* C28 witness: three requests to a server whose responses carry the header
\* "nginx", the header "apache" or no server header have all been recorded, and
\* the report names "apache".
C28_Witness ==
    /\ inputs.headers = {"none", "nginx", "apache"}
    /\ report.completed_requests = 3
    /\ report.server_software = "apache"
    /\ lock = 0

\* C29: the step in which a request fails in get_async adds one to
\* failed_requests, adds one to timeouts if and only if the error is a timeout,
\* and leaves every other field of the report as it was; no other step changes
\* failed_requests or timeouts; so timeouts <= failed_requests in every state.
C29_RecordFailureFrame ==
    [][/\ \A t \in TaskIds :
            (Pending(t) /\ tasks'[t] = "ok") =>
                \E kind \in inputs.kinds :
                    report' = [report EXCEPT
                                  !.failed_requests = @ + 1,
                                  !.timeouts = IF kind = "Timeout" THEN @ + 1 ELSE @]
       /\ (\/ report'.failed_requests # report.failed_requests
           \/ report'.timeouts # report.timeouts) =>
            \E t \in TaskIds : Pending(t) /\ tasks'[t] = "ok"
       /\ report'.timeouts <= report'.failed_requests]_vars

\* C29 witness: of three requests to a server that reads 1024 bytes per
\* response and whose failures are no timeouts, two failed and one succeeded:
\* two failed requests, no timeout, and the one success alone in the other
\* fields.
C29_Witness ==
    /\ inputs.kinds = {"ConnectionFailed"}
    /\ inputs.statuses = {300}
    /\ report.failed_requests = 2
    /\ report.timeouts = 0
    /\ report.completed_requests = 1
    /\ report.non_2xx_responses = 1
    /\ report.total_html_read = 1024
    /\ Len(report.latencies) = 1

\* C30: report.duration is written only by the update step of the timing thread
\* of the mode, and that thread writes nothing else: a step that changes
\* duration is the thread's update step and changes no other field and no
\* request; every step of the thread leaves completed_requests,
\* failed_requests, timeouts, total_html_read, non_2xx_responses, latencies,
\* host, port and server_software unchanged; and a step in which a request
\* advances leaves duration unchanged.
C30_OnlyTheTimingThreadWritesDuration ==
    [][/\ report'.duration # report.duration =>
            /\ wpc = "update" /\ wpc' # "update"
            /\ tasks' = tasks
            /\ lock = 0 /\ lock' = 0
       /\ (wpc' # wpc \/ report'.duration # report.duration) =>
            report' = [report EXCEPT !.duration = report'.duration]
       /\ tasks' # tasks => report'.duration = report.duration]_vars

\* C30 witness: the timing thread has written an elapsed time above zero into a
\* report in which a success and a failure are recorded, and host and port are
\* the ones the connection check wrote.
C30_Witness ==
    /\ report.duration > 0
    /\ report.completed_requests = 1
    /\ report.failed_requests = 1
    /\ Len(report.latencies) = 1
    /\ report.host # ReportDefault.host
    /\ wpc \notin {"idle", "update"}

\* C31: in a Duration run under fair scheduling and a clock that passes the
\* duration, once block_on has entered the loop the run comes to an end:
\* run returns the Runner (and main prints the report), or Arc::try_unwrap
\* panics.
C31_DurationRunComesToAnEnd ==
    (config.test_type = "Duration" /\ epc = "full")
        ~> (epc \in {"frozen", "reported", "panicked"})

\* C32: in RequestCount and Both mode, once the engine has stored true into
\* the stop flag, the timing thread does not enter another round of its loop
\* (so it updates the elapsed time at most once more, the update it was about
\* to make), and, scheduled fairly, its closure returns, unless the user
\* interrupts the process first.
C32_TimingThreadExitsAfterStopFlag ==
    /\ [][(stop_flag /\ wpc' = "update") => wpc = "update"]_vars
    /\ stop_flag ~> (wpc = "done" \/ exited)

=============================================================================
